---- MODULE Spec2Model ----
(***************************************************************************)
(* The two Playwright verification scripts of harrydbarnes/recordsteps:    *)
(*   jules-scratch/verification/verify_extension.py  (test_extension_popup) *)
(*   verification_popup_updated.py                   (verify_popup)         *)
(* Each script is a straight-line sequence of library calls.  A call either *)
(* returns, and control moves to the next statement, or raises, and the     *)
(* exception propagates out of the `with sync_playwright()` block to the    *)
(* top of the script.  Text values that the code takes apart or builds      *)
(* (URLs) are sequences of one-character strings.                           *)
(***************************************************************************)
EXTENDS Naturals, Sequences, FiniteSets, TLC

VARIABLES
    script,          \* which of the two scripts this run executes
    workers,         \* context.service_workers when line 22 reads it
    page,            \* what popup.html shows: heading, #startBtn, #loggingLevel, ...
    cwd,             \* os.getcwd()
    file0,           \* the screenshot path's content before the run
    pc,              \* the statement about to run, or "done" / "failed"
    failedAt,        \* the statement that raised, None if none did
    trace,           \* the statements that returned, in order
    playwright,      \* the sync_playwright() context manager
    session,         \* the browser session (context / browser)
    acquired,        \* sessions launched
    closeCalls,      \* context.close() / browser.close() calls made
    hasPage,         \* a page object exists (new_page returned)
    service_worker,  \* verify_extension.py: service_worker
    extension_id,    \* verify_extension.py: extension_id
    navUrl,          \* the URL handed to goto
    file,            \* the screenshot path's content
    stdout           \* what the script printed

env   == <<script, workers, page, cwd, file0>>
ctl   == <<pc, failedAt, trace, playwright>>
data  == <<session, acquired, closeCalls, hasPage, service_worker,
           extension_id, navUrl, file, stdout>>
vars  == <<script, workers, page, cwd, file0, pc, failedAt, trace, playwright,
           session, acquired, closeCalls, hasPage, service_worker,
           extension_id, navUrl, file, stdout>>

None == "None"

\* no URL / no text yet
Empty == <<>>

\* no worker object yet
NoWorker == [id |-> <<>>, path |-> <<>>]

(***************************************************************************)
(* Bounds                                                                  *)
(***************************************************************************)
\* the longest context.service_workers list considered
MaxWorkers == 2

(***************************************************************************)
(* Text                                                                    *)
(***************************************************************************)
\* "chrome-extension:" (verify_extension.py line 30)
ChromeExtensionScheme ==
    <<"c","h","r","o","m","e","-","e","x","t","e","n","s","i","o","n",":">>

\* "file:" (verification_popup_updated.py line 11)
FileScheme == <<"f","i","l","e",":">>

\* "/popup.html"
PopupHtml == <<"/","p","o","p","u","p",".","h","t","m","l">>

\* str.split(sep): the fields between the separators, empty ones included
RECURSIVE SplitAcc(_, _, _, _)
SplitAcc(s, sep, cur, acc) ==
    IF s = <<>> THEN Append(acc, cur)
    ELSE IF Head(s) = sep
         THEN SplitAcc(Tail(s), sep, <<>>, Append(acc, cur))
         ELSE SplitAcc(Tail(s), sep, Append(cur, Head(s)), acc)

Split(s, sep) == SplitAcc(s, sep, <<>>, <<>>)

\* a slip in the index: the field before the host, which is empty
ExtensionIdOfOffByOne(url) == Split(url, "/")[2]

\* service_worker.url.split('/')[2] -- Python counts from 0, TLA+ from 1
ExtensionIdOf(url) == Split(url, "/")[3]

\* chrome-extension://<id>/popup.html
PopupUrl(id) == ChromeExtensionScheme \o <<"/", "/">> \o id \o PopupHtml

\* file://<cwd>/popup.html
PopupPath(dir) == FileScheme \o <<"/", "/">> \o dir \o PopupHtml

(***************************************************************************)
(* The environment of a run                                                *)
(***************************************************************************)
ExtensionIds == { <<"a","b","c">>, <<"p","q">> }

WorkerPaths == { <<"s","w",".","j","s">>, <<"j","s","/","b","g",".","j","s">> }

\* a service worker of an extension; its url is chrome-extension://<id>/<path>
Workers == [id : ExtensionIds, path : WorkerPaths]

WorkerUrl(w) == ChromeExtensionScheme \o <<"/", "/">> \o w.id \o <<"/">> \o w.path

WorkerLists == UNION { [1..n -> Workers] : n \in 0..MaxWorkers }

Dirs == { <<"/","r","e","p","o">>, <<"/","t","m","p","/","x">> }

\* the text of an element; None when the element is not in the page
Texts == { "Click Recorder", "Start Recording", "Stop Recording" }

ElementStates == { "absent", "hidden", "visible" }

Pages ==
    { p \in [ heading            : Texts \cup {None},
              startBtn           : ElementStates,
              startBtnText       : Texts \cup {None},
              loggingLevel       : ElementStates,
              loggingDescription : ElementStates ] :
        (p.startBtn = "absent") <=> (p.startBtnText = None) }

Scripts == { "verify_extension", "verification_popup_updated" }

(***************************************************************************)
(* The library's checks                                                    *)
(***************************************************************************)
\* a check that lets everything through
ToHaveTextAlways(actual, expected) == TRUE

\* expect(locator).to_have_text(expected)
ToHaveText(actual, expected) == actual = expected

\* a visibility check that lets a hidden element through
ToBeVisibleAttached(state) == state # "absent"

\* expect(locator).to_be_visible()
ToBeVisible(state) == state = "visible"

\* a wait that is content with an element that is attached but hidden
WaitForSelectorAttached(state) == state # "absent"

\* page.wait_for_selector(selector): "to be visible" (line 15)
WaitForSelector(state) == state = "visible"

(***************************************************************************)
(* Control flow                                                            *)
(***************************************************************************)
\* the screenshot taken before the checks
TestExtensionPopupScreenshotFirst ==
    << "sync_playwright", "launch_persistent_context", "service_workers",
       "split", "new_page", "goto", "screenshot",
       "expect_heading_text", "expect_button_visible", "expect_button_text",
       "close", "exit", "print_success" >>

\* verify_extension.py, the statements in program order
TestExtensionPopup ==
    << "sync_playwright", "launch_persistent_context", "service_workers",
       "split", "new_page", "goto",
       "expect_heading_text", "expect_button_visible", "expect_button_text",
       "screenshot", "close", "exit", "print_success" >>

\* verification_popup_updated.py, the statements in program order
VerifyPopup ==
    << "sync_playwright", "launch", "new_page", "print_loading", "goto",
       "wait_loggingLevel", "wait_loggingDescription",
       "screenshot", "print_saved", "close", "exit" >>

Program == IF script = "verify_extension" THEN TestExtensionPopup ELSE VerifyPopup

IndexOf(prog, step) == CHOOSE i \in 1..Len(prog) : prog[i] = step

\* the statement that follows `step`, "done" after the last
StepAfter(step) ==
    LET i == IndexOf(Program, step)
    IN  IF i = Len(Program) THEN "done" ELSE Program[i + 1]

At(s, step) == script = s /\ pc = step

\* the statement returned: control moves on
Return(step) ==
    /\ pc' = StepAfter(step)
    /\ trace' = Append(trace, step)
    /\ failedAt' = failedAt

\* a handler that, when the statement raises, swallows the exception
RaiseSwallowed(step) ==
    /\ pc' = StepAfter(step)
    /\ failedAt' = step
    /\ UNCHANGED <<trace, playwright>>

\* the statement raised: nothing catches it, the `with` block is left through
\* the context manager's __exit__, and the script ends
Raise(step) ==
    /\ pc' = "failed"
    /\ failedAt' = step
    /\ trace' = trace
    /\ playwright' = IF playwright = "running" THEN "stopped" ELSE playwright

\* A run's environment.  The parts of it that the script never reads are held
\* at one value: verify_extension.py queries h2 and #startBtn only,
\* verification_popup_updated.py queries #loggingLevel and #loggingDescription
\* only and loads no extension.
Init ==
    /\ script \in Scripts
    /\ workers \in WorkerLists
    /\ page \in Pages
    /\ script = "verify_extension" =>
          /\ page.loggingLevel = "absent"
          /\ page.loggingDescription = "absent"
    /\ script = "verification_popup_updated" =>
          /\ workers = <<>>
          /\ page.heading = None
          /\ page.startBtn = "absent"
    /\ cwd \in Dirs
    /\ file0 \in {"absent", "old"}
    /\ pc = "sync_playwright"
    /\ failedAt = None
    /\ trace = <<>>
    /\ playwright = "not_started"
    /\ session = "none"
    /\ acquired = 0
    /\ closeCalls = 0
    /\ hasPage = FALSE
    /\ service_worker = NoWorker
    /\ extension_id = Empty
    /\ navUrl = Empty
    /\ file = file0
    /\ stdout = <<>>

(***************************************************************************)
(* verify_extension.py                                                     *)
(***************************************************************************)
Ext == "verify_extension"

\* `not obj` for a library object: only None is falsy
Falsy(obj) == obj = NoWorker

\* line 8: with sync_playwright() as p
ExtSyncPlaywright ==
    /\ At(Ext, "sync_playwright")
    /\ \/ /\ Return("sync_playwright")
          /\ playwright' = "running"
       \/ Raise("sync_playwright")
    /\ UNCHANGED <<env, data>>

\* lines 10-18: context = p.chromium.launch_persistent_context(...)
ExtLaunchPersistentContext ==
    /\ At(Ext, "launch_persistent_context")
    /\ \/ /\ Return("launch_persistent_context")
          /\ session' = "open"
          /\ acquired' = acquired + 1
          /\ UNCHANGED playwright
       \/ /\ Raise("launch_persistent_context")
          /\ UNCHANGED <<session, acquired>>
    /\ UNCHANGED <<env, closeCalls, hasPage, service_worker, extension_id,
                   navUrl, file, stdout>>

\* lines 22-24: service_worker = context.service_workers[0]; the subscript
\* raises IndexError on an empty list; wait_for_event("serviceworker") runs
\* only if the object read is falsy
ExtServiceWorkers ==
    /\ At(Ext, "service_workers")
    /\ \/ /\ workers # <<>>
          /\ Return("service_workers")
          /\ \E event \in Workers :
                service_worker' =
                    IF Falsy(workers[1]) THEN event ELSE workers[1]
          /\ UNCHANGED playwright
       \/ /\ workers = <<>>
          /\ Raise("service_workers")
          /\ UNCHANGED service_worker
    /\ UNCHANGED <<env, session, acquired, closeCalls, hasPage, extension_id,
                   navUrl, file, stdout>>

\* line 26: extension_id = service_worker.url.split('/')[2]
ExtSplit ==
    /\ At(Ext, "split")
    /\ IF Len(Split(WorkerUrl(service_worker), "/")) >= 3
       THEN /\ Return("split")
            /\ extension_id' = ExtensionIdOf(WorkerUrl(service_worker))
            /\ UNCHANGED playwright
       ELSE /\ Raise("split")
            /\ UNCHANGED extension_id
    /\ UNCHANGED <<env, session, acquired, closeCalls, hasPage,
                   service_worker, navUrl, file, stdout>>

\* line 29: popup_page = context.new_page()
ExtNewPage ==
    /\ At(Ext, "new_page")
    /\ \/ /\ Return("new_page")
          /\ hasPage' = TRUE
          /\ UNCHANGED playwright
       \/ /\ Raise("new_page")
          /\ UNCHANGED hasPage
    /\ UNCHANGED <<env, session, acquired, closeCalls, service_worker,
                   extension_id, navUrl, file, stdout>>

\* line 30: popup_page.goto(f"chrome-extension://{extension_id}/popup.html")
ExtGoto ==
    /\ At(Ext, "goto")
    /\ navUrl' = PopupUrl(extension_id)
    /\ \/ /\ Return("goto")
          /\ UNCHANGED playwright
       \/ Raise("goto")
    /\ UNCHANGED <<env, session, acquired, closeCalls, hasPage, service_worker,
                   extension_id, file, stdout>>

\* the heading check in a loop that tries again for as long as it fails
ExtExpectHeadingTextRetry ==
    /\ At(Ext, "expect_heading_text")
    /\ \/ /\ ToHaveText(page.heading, "Click Recorder")
          /\ Return("expect_heading_text")
          /\ UNCHANGED playwright
       \/ /\ ~ToHaveText(page.heading, "Click Recorder")
          /\ UNCHANGED ctl
    /\ UNCHANGED <<env, data>>

\* lines 33-34: expect(popup_page.locator("h2")).to_have_text("Click Recorder")
ExtExpectHeadingText ==
    /\ At(Ext, "expect_heading_text")
    /\ \/ /\ ToHaveText(page.heading, "Click Recorder")
          /\ Return("expect_heading_text")
          /\ UNCHANGED playwright
       \/ /\ ~ToHaveText(page.heading, "Click Recorder")
          /\ Raise("expect_heading_text")
    /\ UNCHANGED <<env, data>>

\* lines 37-38: expect(popup_page.locator("#startBtn")).to_be_visible()
ExtExpectButtonVisible ==
    /\ At(Ext, "expect_button_visible")
    /\ \/ /\ ToBeVisible(page.startBtn)
          /\ Return("expect_button_visible")
          /\ UNCHANGED playwright
       \/ /\ ~ToBeVisible(page.startBtn)
          /\ Raise("expect_button_visible")
    /\ UNCHANGED <<env, data>>

\* line 39: expect(start_button).to_have_text("Start Recording")
ExtExpectButtonText ==
    /\ At(Ext, "expect_button_text")
    /\ \/ /\ ToHaveText(page.startBtnText, "Start Recording")
          /\ Return("expect_button_text")
          /\ UNCHANGED playwright
       \/ /\ ~ToHaveText(page.startBtnText, "Start Recording")
          /\ Raise("expect_button_text")
    /\ UNCHANGED <<env, data>>

\* line 42: popup_page.screenshot(path="jules-scratch/verification/popup.png")
ExtScreenshot ==
    /\ At(Ext, "screenshot")
    /\ \/ /\ Return("screenshot")
          /\ file' = "new"
          /\ UNCHANGED playwright
       \/ /\ Raise("screenshot")
          /\ UNCHANGED file
    /\ UNCHANGED <<env, session, acquired, closeCalls, hasPage, service_worker,
                   extension_id, navUrl, stdout>>

\* the script without its line 45: the context is never closed
ExtCloseForgotten ==
    /\ At(Ext, "close")
    /\ Return("close")
    /\ UNCHANGED <<env, playwright, data>>

\* line 45: context.close()
ExtClose ==
    /\ At(Ext, "close")
    /\ closeCalls' = closeCalls + 1
    /\ \/ /\ Return("close")
          /\ session' = "closed"
          /\ UNCHANGED playwright
       \/ /\ Raise("close")
          /\ UNCHANGED session
    /\ UNCHANGED <<env, acquired, hasPage, service_worker, extension_id,
                   navUrl, file, stdout>>

\* the end of the `with` block (after line 45): the context manager's __exit__
ExtExit ==
    /\ At(Ext, "exit")
    /\ Return("exit")
    /\ playwright' = "stopped"
    /\ UNCHANGED <<env, data>>

\* the text printed at line 49
SuccessMessage == "Verification script executed successfully."

\* line 49: print("Verification script executed successfully.")
ExtPrintSuccess ==
    /\ At(Ext, "print_success")
    /\ Return("print_success")
    /\ stdout' = Append(stdout, SuccessMessage)
    /\ UNCHANGED <<env, playwright, session, acquired, closeCalls, hasPage,
                   service_worker, extension_id, navUrl, file>>

(***************************************************************************)
(* verification_popup_updated.py                                           *)
(***************************************************************************)
Popup == "verification_popup_updated"

\* line 5: with sync_playwright() as p
PopupSyncPlaywright ==
    /\ At(Popup, "sync_playwright")
    /\ \/ /\ Return("sync_playwright")
          /\ playwright' = "running"
       \/ Raise("sync_playwright")
    /\ UNCHANGED <<env, data>>

\* line 6: browser = p.chromium.launch(headless=True)
PopupLaunch ==
    /\ At(Popup, "launch")
    /\ \/ /\ Return("launch")
          /\ session' = "open"
          /\ acquired' = acquired + 1
          /\ UNCHANGED playwright
       \/ /\ Raise("launch")
          /\ UNCHANGED <<session, acquired>>
    /\ UNCHANGED <<env, closeCalls, hasPage, service_worker, extension_id,
                   navUrl, file, stdout>>

\* line 7: page = browser.new_page()
PopupNewPage ==
    /\ At(Popup, "new_page")
    /\ \/ /\ Return("new_page")
          /\ hasPage' = TRUE
          /\ UNCHANGED playwright
       \/ /\ Raise("new_page")
          /\ UNCHANGED hasPage
    /\ UNCHANGED <<env, session, acquired, closeCalls, service_worker,
                   extension_id, navUrl, file, stdout>>

\* lines 10-12: popup_path = f"file://{cwd}/popup.html"; print(f"Loading ...")
PopupPrintLoading ==
    /\ At(Popup, "print_loading")
    /\ Return("print_loading")
    /\ stdout' = Append(stdout, "Loading")
    /\ UNCHANGED <<env, playwright, session, acquired, closeCalls, hasPage,
                   service_worker, extension_id, navUrl, file>>

\* line 13: page.goto(popup_path)
PopupGoto ==
    /\ At(Popup, "goto")
    /\ navUrl' = PopupPath(cwd)
    /\ \/ /\ Return("goto")
          /\ UNCHANGED playwright
       \/ Raise("goto")
    /\ UNCHANGED <<env, session, acquired, closeCalls, hasPage, service_worker,
                   extension_id, file, stdout>>

\* line 16: page.wait_for_selector("#loggingLevel")
PopupWaitLoggingLevel ==
    /\ At(Popup, "wait_loggingLevel")
    /\ \/ /\ WaitForSelector(page.loggingLevel)
          /\ Return("wait_loggingLevel")
          /\ UNCHANGED playwright
       \/ /\ ~WaitForSelector(page.loggingLevel)
          /\ Raise("wait_loggingLevel")
    /\ UNCHANGED <<env, data>>

\* line 17: page.wait_for_selector("#loggingDescription")
PopupWaitLoggingDescription ==
    /\ At(Popup, "wait_loggingDescription")
    /\ \/ /\ WaitForSelector(page.loggingDescription)
          /\ Return("wait_loggingDescription")
          /\ UNCHANGED playwright
       \/ /\ ~WaitForSelector(page.loggingDescription)
          /\ Raise("wait_loggingDescription")
    /\ UNCHANGED <<env, data>>

\* lines 20-21: page.screenshot(path="verification_popup_updated.png")
PopupScreenshot ==
    /\ At(Popup, "screenshot")
    /\ \/ /\ Return("screenshot")
          /\ file' = "new"
          /\ UNCHANGED playwright
       \/ /\ Raise("screenshot")
          /\ UNCHANGED file
    /\ UNCHANGED <<env, session, acquired, closeCalls, hasPage, service_worker,
                   extension_id, navUrl, stdout>>

\* line 22: print(f"Screenshot saved to {screenshot_path}")
PopupPrintSaved ==
    /\ At(Popup, "print_saved")
    /\ Return("print_saved")
    /\ stdout' = Append(stdout, "Screenshot saved")
    /\ UNCHANGED <<env, playwright, session, acquired, closeCalls, hasPage,
                   service_worker, extension_id, navUrl, file>>

\* line 24: browser.close()
PopupClose ==
    /\ At(Popup, "close")
    /\ closeCalls' = closeCalls + 1
    /\ \/ /\ Return("close")
          /\ session' = "closed"
          /\ UNCHANGED playwright
       \/ /\ Raise("close")
          /\ UNCHANGED session
    /\ UNCHANGED <<env, acquired, hasPage, service_worker, extension_id,
                   navUrl, file, stdout>>

\* the end of the `with` block (after line 24): the context manager's __exit__
PopupExit ==
    /\ At(Popup, "exit")
    /\ Return("exit")
    /\ playwright' = "stopped"
    /\ UNCHANGED <<env, data>>

(***************************************************************************)
(* Specifications                                                          *)
(***************************************************************************)
Next ==
    \/ ExtSyncPlaywright
    \/ ExtLaunchPersistentContext
    \/ ExtServiceWorkers
    \/ ExtSplit
    \/ ExtNewPage
    \/ ExtGoto
    \/ ExtExpectHeadingText
    \/ ExtExpectButtonVisible
    \/ ExtExpectButtonText
    \/ ExtScreenshot
    \/ ExtClose
    \/ ExtExit
    \/ ExtPrintSuccess
    \/ PopupSyncPlaywright
    \/ PopupLaunch
    \/ PopupNewPage
    \/ PopupPrintLoading
    \/ PopupGoto
    \/ PopupWaitLoggingLevel
    \/ PopupWaitLoggingDescription
    \/ PopupScreenshot
    \/ PopupPrintSaved
    \/ PopupClose
    \/ PopupExit

Spec == Init /\ [][Next]_vars

\* every library call returns or raises in the end (a wait is satisfied or
\* ended by the library's timeout), and the interpreter runs the next statement
LiveSpec == Spec /\ WF_vars(Next)

Terminated == pc \in {"done", "failed"}

(***************************************************************************)
(* Properties                                                              *)
(***************************************************************************)
InTrace(step) == \E i \in 1..Len(trace) : trace[i] = step

Count(seq, x) == Cardinality({ i \in 1..Len(seq) : seq[i] = x })

Pos(step) == CHOOSE i \in 1..Len(trace) : trace[i] = step

Before(a, b) == InTrace(a) /\ InTrace(b) /\ Pos(a) < Pos(b)

\* the statement was started: it returned or it raised
Attempted(step) == InTrace(step) \/ failedAt = step

\* what verify_extension.py checks of the popup
ExtThreeChecks ==
    /\ page.heading = "Click Recorder"
    /\ page.startBtn = "visible"
    /\ page.startBtnText = "Start Recording"

\* what verification_popup_updated.py waits for
PopupBothElements ==
    /\ page.loggingLevel = "visible"
    /\ page.loggingDescription = "visible"

\* C1: in every run that gets past the launch, the session is acquired exactly
\* once and, when the script has ended, context.close() / browser.close() has
\* been called exactly once, whatever the later statements did.
C1_SessionReleasedOnce ==
    (Terminated /\ acquired >= 1) => (acquired = 1 /\ closeCalls = 1)

\* C2: a statement that fails ends the script in the failed state: the failed
\* statement is not recorded as done, no statement runs after it (nothing
\* changes any more), and the script never reaches its successful end.
C2_FailureIsTerminal ==
    [][ /\ (failedAt # None => UNCHANGED vars)
        /\ (failedAt' # None =>
              /\ pc' = "failed"
              /\ \A i \in 1..Len(trace') : trace'[i] # failedAt'
              /\ Count(stdout', SuccessMessage) = 0) ]_vars

C2_Witness ==
    /\ pc = "failed"
    /\ failedAt = "expect_button_text"
    /\ InTrace("expect_button_visible")

\* C3 as stated: once popup.html has loaded, verify_extension.py ends in
\* success if and only if the three checks hold of the popup.
C3_Original ==
    (script = Ext /\ Terminated /\ InTrace("goto")) =>
        ((pc = "done") <=> ExtThreeChecks)

\* C3 amended: once popup.html has loaded, verify_extension.py ends in success
\* if and only if the three checks hold of the popup and neither the
\* screenshot nor context.close() raises; a check that does not hold fails the
\* run at that check.
C3_SuccessIffChecksAndTeardown ==
    (script = Ext /\ Terminated /\ InTrace("goto")) =>
        /\ (pc = "done") <=>
              (ExtThreeChecks /\ failedAt \notin {"screenshot", "close"})
        /\ (pc = "done") => Count(stdout, SuccessMessage) = 1
        /\ ~ExtThreeChecks =>
              failedAt \in {"expect_heading_text", "expect_button_visible",
                            "expect_button_text"}

C3_Witness == script = Ext /\ pc = "done" /\ ExtThreeChecks /\ InTrace("goto")

\* C4 as stated: once popup.html has loaded, verification_popup_updated.py
\* completes if and only if the page shows both #loggingLevel and
\* #loggingDescription.
C4_Original ==
    (script = Popup /\ Terminated /\ InTrace("goto")) =>
        ((pc = "done") <=> PopupBothElements)

\* C4 amended: once popup.html has loaded, verification_popup_updated.py
\* completes if and only if both selector waits find their element visible and
\* neither the screenshot nor browser.close() raises; #loggingDescription is
\* waited for only after #loggingLevel was found.
C4_CompletesIffBothAndTeardown ==
    (script = Popup /\ InTrace("goto")) =>
        /\ Terminated =>
              ((pc = "done") <=>
                 (PopupBothElements /\ failedAt \notin {"screenshot", "close"}))
        /\ Attempted("wait_loggingDescription") =>
              /\ InTrace("wait_loggingLevel")
              /\ page.loggingLevel = "visible"
        /\ pc = "wait_loggingDescription" => InTrace("wait_loggingLevel")

C4_Witness ==
    script = Popup /\ pc = "done" /\ PopupBothElements /\ file = "new"

\* C5: when context.service_workers is empty after the launch,
\* verify_extension.py does not fail at the read of the service worker: it
\* waits for the "serviceworker" event and continues.
C5_WaitsForServiceWorker ==
    (script = Ext /\ workers = <<>>) => failedAt # "service_workers"

\* C6: a successful run has started the session, navigated, checked the
\* elements, saved the screenshot and torn the session down, each once and in
\* this order, and teardown is the last call on the browser.
C6_FixedOrder ==
    pc = "done" =>
        LET launch == IF script = Ext THEN "launch_persistent_context" ELSE "launch"
            checks == IF script = Ext
                      THEN {"expect_heading_text", "expect_button_visible",
                            "expect_button_text"}
                      ELSE {"wait_loggingLevel", "wait_loggingDescription"}
            calls  == {launch, "new_page", "goto", "screenshot", "close"} \cup checks
        IN  /\ \A c \in calls : Count(trace, c) = 1
            /\ \A i \in 1..Len(trace) : Count(trace, trace[i]) = 1
            /\ Before(launch, "goto")
            /\ \A c \in checks : Before("goto", c) /\ Before(c, "screenshot")
            /\ Before("screenshot", "close")
            /\ \A c \in calls \ {"close"} : Before(c, "close")
            /\ acquired = 1 /\ closeCalls = 1 /\ session = "closed"

C6_Witness == pc = "done" /\ script = Popup /\ InTrace("close")

\* C7: every run ends, in success or in failure, given that every library
\* call in the end returns or raises.
C7_Terminates == <>Terminated

C7_Witness == pc = "failed" /\ failedAt = "wait_loggingDescription"

\* C8: the screenshot file is written only after all checks of the script
\* passed, and a run in which a check fails leaves the file as it was.
C8_ScreenshotOnlyAfterChecks ==
    /\ (file # file0 \/ InTrace("screenshot")) =>
          IF script = Ext
          THEN /\ ExtThreeChecks
               /\ InTrace("expect_heading_text")
               /\ InTrace("expect_button_visible")
               /\ InTrace("expect_button_text")
          ELSE /\ PopupBothElements
               /\ InTrace("wait_loggingLevel")
               /\ InTrace("wait_loggingDescription")
    /\ failedAt \in {"expect_heading_text", "expect_button_visible",
                      "expect_button_text", "wait_loggingLevel",
                      "wait_loggingDescription"} => file = file0

C8_Witness == script = Ext /\ file = "new" /\ file0 = "old"

\* C9: verify_extension.py prints the success message at most once, only
\* after every check passed, the screenshot was saved and the context was
\* closed, and never in a run in which a statement failed.
C9_SuccessMessage ==
    /\ Count(stdout, SuccessMessage) <= 1
    /\ Count(stdout, SuccessMessage) = 1 =>
          /\ script = Ext
          /\ ExtThreeChecks
          /\ file = "new"
          /\ session = "closed"
          /\ closeCalls = 1
          /\ failedAt = None
    /\ failedAt # None => Count(stdout, SuccessMessage) = 0

C9_Witness == Count(stdout, SuccessMessage) = 1

\* C10: the URL verify_extension.py navigates to is the popup of the extension
\* whose service worker was read, and no navigation happens before a service
\* worker was obtained.
C10_PopupOfObservedWorker ==
    script = Ext =>
        /\ Attempted("goto") =>
              /\ InTrace("service_workers")
              /\ service_worker \in Workers
              /\ service_worker = workers[1]
              /\ navUrl = ChromeExtensionScheme \o <<"/", "/">>
                             \o service_worker.id \o PopupHtml
        /\ ~InTrace("service_workers") => navUrl = Empty

C10_Witness ==
    /\ script = Ext
    /\ InTrace("goto")
    /\ Len(workers) = 2
    /\ workers[1].id # workers[2].id

====
